---- MODULE Spec2Model ----
(***************************************************************************)
(* Calendar automation app (api/index.py): the /generate workflow          *)
(* (fetch -> generate -> create), the OAuth token files token.json and     *)
(* token.pickle, the /auth code exchange and the home page.                 *)
(*                                                                         *)
(* In Spec one request is served at a time.  generate() is modelled         *)
(* statement group by statement group (pc names the next group to          *)
(* execute); every call to an external collaborator (authorization server, *)
(* calendar and tasks provider, generative model, file system) either      *)
(* returns or raises, chosen nondeterministically.                         *)
(*                                                                         *)
(* SpecPrompt and SpecCreate run the prompt step and the creating step of  *)
(* generate() on wider sets of fetched items and of generated events;      *)
(* SpecRace runs get_google_services in two threads at once.               *)
(***************************************************************************)
EXTENDS Naturals, Sequences, FiniteSets, TLC

\* ---------------------------------------------------------------- bounds
MaxFetched == 1     \* length of a non-empty list returned by a provider list call
MaxGen == 2         \* longest list returned by the generative model

\* /generate requests served, access tokens the authorization server issues
Runs == {1, 2}
Tokens == {1, 2}

\* summary of the i-th event of a list the generative model returns
Title(i) == "Event " \o ToString(i)
Titles == {Title(i) : i \in 1..MaxGen}
Prompts == {"plan my day"}           \* custom_prompt form values

\* An item of events().list / tasks().list is a dict: a record with the keys
\* the provider sent.
Meeting == [summary |-> "Standup",
            start |-> [dateTime |-> "2024-05-01T09:00:00Z"],
            end |-> [dateTime |-> "2024-05-01T09:30:00Z"]]
Chore == [title |-> "Write report", due |-> "2024-05-02T00:00:00.000Z"]

\* lists a provider list call can return
FetchResults(item) == {[i \in 1..n |-> item] : n \in {0, MaxFetched}}

\* -------------------------------------------------------- datetime strings
\* A datetime string is the sequence of its characters.
Date == <<"2", "0", "2", "4", "-", "0", "5", "-", "0", "1">>
NineAM == <<"0", "9", ":", "0", "0", ":", "0", "0">>
IsoNaive == Date \o <<"T">> \o NineAM                        \* 2024-05-01T09:00:00
IsoSpace == Date \o <<" ">> \o NineAM                        \* 2024-05-01 09:00:00
IsoZulu == IsoNaive \o <<"Z">>                               \* ...T09:00:00Z
IsoUtc == IsoNaive \o <<"+", "0", "0", ":", "0", "0">>       \* ...T09:00:00+00:00
IsoEast == IsoNaive \o <<"+", "0", "5", ":", "3", "0">>      \* ...T09:00:00+05:30
IsoWest == IsoNaive \o <<"-", "0", "5", ":", "0", "0">>      \* ...T09:00:00-05:00
BadHour == Date \o <<" ", "2", "5", ":", "0", "0">>          \* 2024-05-01 25:00
Tomorrow == <<"t", "o", "m", "o", "r", "r", "o", "w">>       \* tomorrow
TomorrowAt9 == Tomorrow \o <<" ", "a", "t", " ", "9">>       \* tomorrow at 9
Tomorrow9to10 == Tomorrow \o <<" ", "9", "-", "1", "0">>     \* tomorrow 9-10
ZoomCall == <<"Z", "o", "o", "m", " ", "c", "a", "l", "l">>  \* Zoom call

\* strings dateutil.parser.parse accepts, strings it raises on (an hour out
\* of range, words it does not know)
Parseable == {IsoNaive, IsoSpace, IsoZulu, IsoUtc, IsoEast, IsoWest}
Unparseable == {BadHour, Tomorrow, TomorrowAt9, Tomorrow9to10, ZoomCall}
DateTimeStrings == Parseable \cup Unparseable

\* d.get(key, default)
Get(d, key, default) == IF key \in DOMAIN d THEN d[key] ELSE default

\* An optional value (None or a str / a list) is <<>> or <<value>>.
None == <<>>
Some(v) == <<v>>

\* the dict CalendarEvent.model_dump() returns for the i-th event of a list
\* the generative model returns (every key present, None where not given)
GenEvent(i) ==
    [summary |-> Title(i),
     start_datetime |-> IF i = 1 THEN TomorrowAt9 ELSE IsoSpace,
     end_datetime |-> IF i = 1 THEN IsoNaive ELSE IsoEast,
     description |-> IF i = 1 THEN None ELSE Some("notes"),
     location |-> None,
     color_id |-> None,
     attendees |-> None,
     timezone |-> IF i = 1 THEN None ELSE Some("Europe/Paris")]

\* lists of events the generative model can return
GenResults == {[i \in 1..k |-> GenEvent(i)] : k \in 0..MaxGen}

\* ------------------------------------------------------------- constants
\* the URL flow.authorization_url(prompt='consent', access_type='offline') returns
AuthUrl == "https://accounts.google.com/o/oauth2/auth?access_type=offline&prompt=consent"

VARIABLES
    tokenJson,      \* content of token.json
    tokenPickle,    \* content of token.pickle
    promptFile,     \* content of prompt.txt
    live,           \* access tokens whose expiry time has not passed
    nextTok,        \* next access token the authorization server issues
    calendar,       \* provider side: number of inserted events per summary
    session,        \* the flask session of the client
    pc,             \* position of the request being served
    messages,       \* generate(): local list `messages`
    creds,          \* get_google_services()/get_calendar_service(): local `creds`
    events,         \* generate(): local `events`
    tasks,          \* generate(): local `tasks`
    event_dicts,    \* generate(): local `event_dicts`
    created_events, \* generate(): local `created_events`
    idx,            \* generate(): position of `for ev in event_dicts`
    auth_error,     \* `error` shown by the last rendering of the /auth page
    run,            \* history of the current run (calls made, failures seen)
    runs,           \* /generate requests served so far
    threads         \* concurrent calls of get_google_services: position and locals

vars == <<tokenJson, tokenPickle, promptFile, live, nextTok,
          calendar, session, pc, messages, creds, events, tasks, event_dicts,
          created_events, idx, auth_error, run, runs, threads>>

\* ------------------------------------------------------------ credentials
\* A credential file or the local `creds`: st is "absent" (no file / None),
\* "corrupt" (file exists but cannot be parsed) or "ok" (a Credentials
\* object with access token tok and, when rt, a refresh token).
NoCreds == [st |-> "absent", tok |-> 0, rt |-> FALSE]
Corrupt == [st |-> "corrupt", tok |-> 0, rt |-> FALSE]
Cred(t, r) == [st |-> "ok", tok |-> t, rt |-> r]

\* os.path.exists(path)
Exists(file) == file.st # "absent"
\* Credentials.valid / Credentials.expired (the expiry time against the clock)
Valid(c) == c.st = "ok" /\ c.tok \in live
Expired(c) == c.st = "ok" /\ c.tok \notin live

\* open(path, 'w') followed by write/dump: a failing open (OSError) leaves the
\* file as it was; the open truncates the file, so a failing write leaves a
\* file that exists and cannot be parsed.
WriteOutcomes == {"ok", "open_fails", "write_fails"}
Written(file, c, outcome) ==
    CASE outcome = "ok" -> c
      [] outcome = "write_fails" -> Corrupt
      [] OTHER -> file

\* home(), lines 452-462: the needs_auth flag of the page
NeedsAuth ==
    IF ~Exists(tokenJson) THEN TRUE
    ELSE IF tokenJson.st = "corrupt" THEN TRUE
    ELSE ~Valid(tokenJson) /\ (~Expired(tokenJson) \/ ~tokenJson.rt)

\* ---------------------------------------------------------------- session
EmptySession ==
    [messages |-> <<>>, custom_prompt |-> "", events |-> <<>>, tasks |-> <<>>,
     generated_events |-> <<>>, generated_events_json |-> <<>>,
     created_events |-> <<>>, step_fetch |-> FALSE, step_generate |-> FALSE,
     step_create |-> FALSE, auth_url |-> "", auth_flow |-> ""]

\* keys of the session that make up the WorkflowState shown by home()
StateKeys == {"messages", "events", "tasks", "generated_events",
              "generated_events_json", "created_events", "step_fetch",
              "step_generate", "step_create"}

\* History of the run being served: what the credential files held when
\* get_google_services read them, the session keys assigned, the calls made to
\* the collaborators and the places where a call raised.
NoRun ==
    [absentAtStart |-> FALSE, loaded |-> NoCreds, validAtLoad |-> FALSE,
     needsAuthAtLoad |-> FALSE, pickleAtLoad |-> NoCreds, wrote |-> {}, list_events |-> 0,
     list_tasks |-> 0, model |-> 0, flow |-> 0, refresh |-> 0,
     ggs_writes |-> 0, calendar_service |-> 0, inserts |-> <<>>,
     bodies |-> <<>>, failed |-> {}, insertFailed |-> {}]

Resting == pc \in {"Idle", "Done", "AuthPending", "Raised"}

\* requests served by concurrent threads of the server
Threads == {1, 2}
\* a thread: where it is in get_google_services, its local `creds`, what it
\* read from token.json and whether its refresh has returned
Thread(at, c, read, refreshed) ==
    [pc |-> at, creds |-> c, loaded |-> read, refreshed |-> refreshed]
\* no concurrent request
NoThreads == [t \in Threads |-> Thread("none", NoCreds, NoCreds, FALSE)]

Init ==
    /\ tokenJson = NoCreds
    /\ tokenPickle = NoCreds
    /\ promptFile = <<>>
    /\ live = {}
    /\ nextTok = 1
    /\ calendar = [t \in Titles |-> 0]
    /\ session = EmptySession
    /\ pc = "Idle"
    /\ messages = <<>>
    /\ creds = NoCreds
    /\ events = <<>>
    /\ tasks = <<>>
    /\ event_dicts = <<>>
    /\ created_events = <<>>
    /\ idx = 0
    /\ run = NoRun
    /\ auth_error = ""
    /\ runs = 0
    /\ threads = NoThreads

\* --------------------------------------------------------------- messages
\* A message is {'type': ..., 'text': f"..."}; the text is kept as the
\* sequence of the f-string's pieces, numbers rendered by str().
Msg(type, text) == [type |-> type, text |-> text]
\* FetchedMsg with the two counts exchanged
FetchedMsg_Swapped(n, m) ==
    [type |-> "success",
     text |-> <<"Fetched ", ToString(m), " events and ", ToString(n), " tasks">>]

FetchedMsg(n, m) ==
    Msg("success", <<"Fetched ", ToString(n), " events and ", ToString(m), " tasks">>)
GeneratedMsg(k) == Msg("success", <<"Generated ", ToString(k), " calendar events">>)
CreatedMsg(k) ==
    Msg("success", <<"Created ", ToString(k), " events in your Google Calendar">>)
CreateErrorMsg(summary, err) ==
    Msg("error", <<"Error creating event '", summary, "': ", err>>)
GenerateErrorMsg(err) == Msg("error", <<"Error generating events: ", err>>)
ErrorMsg(err) == Msg("error", <<"Error: ", err>>)

\* ------------------------------------------------------------- exceptions
OuterBlock == {"ggs_load", "ggs_refresh", "ggs_flow", "ggs_write_json",
               "ggs_write_pickle", "ggs_build", "fetch_events", "fetch_tasks",
               "save_prompt"}
InnerBlock == {"generate_events", "save_events", "gcs_load", "gcs_write",
               "gcs_build"}

\* Handler with the per-event clause (line 651) missing: a failed insertion
\* is caught by the clause around steps 2 and 3
Handler_NoEventClause(loc) ==
    CASE loc = "create" -> "inner"
      [] loc \in InnerBlock -> "inner"
      [] loc \in OuterBlock -> "outer"
      [] OTHER -> "none"

\* Handler with the clause around the whole body (line 671) missing
Handler_NoOuterClause(loc) ==
    CASE loc = "create" -> "event"
      [] loc \in InnerBlock -> "inner"
      [] OTHER -> "none"

\* The except clause that catches an exception raised at position loc of
\* generate(): the per-event clause, the clause around steps 2 and 3, the
\* clause around the whole body, or none.
Handler(loc) ==
    CASE loc = "create" -> "event"
      [] loc \in InnerBlock -> "inner"
      [] loc \in OuterBlock -> "outer"
      [] OTHER -> "none"

\* OnError with a failed fetch swallowed: the run goes on to step 2
OnError_ContinueAfterFetch(loc) ==
    CASE loc \in {"fetch_events", "fetch_tasks"} -> "generate_events"
      [] Handler(loc) = "event" -> "create"
      [] Handler(loc) \in {"inner", "outer"} -> "finish"
      [] OTHER -> "Raised"

\* OnError with step 3 entered after a failed generation
OnError_CreateAfterGenerationFailure(loc) ==
    CASE loc = "generate_events" -> "gcs_load"
      [] Handler(loc) = "event" -> "create"
      [] Handler(loc) \in {"inner", "outer"} -> "finish"
      [] OTHER -> "Raised"

\* OnError with a failed generation attempted again
OnError_RetryGeneration(loc) ==
    CASE loc = "generate_events" -> "generate_events"
      [] Handler(loc) = "event" -> "create"
      [] Handler(loc) \in {"inner", "outer"} -> "finish"
      [] OTHER -> "Raised"

\* Where generate() continues after the clause that caught the exception.
OnError(loc) ==
    CASE Handler(loc) = "event" -> "create"
      [] Handler(loc) \in {"inner", "outer"} -> "finish"
      [] OTHER -> "Raised"

\* The message the catching clause appends.
Caught(loc, err) ==
    CASE Handler(loc) = "event" ->
            Append(messages, CreateErrorMsg(event_dicts[idx].summary, err))
      [] Handler(loc) = "inner" -> Append(messages, GenerateErrorMsg(err))
      [] Handler(loc) = "outer" -> Append(messages, ErrorMsg(err))
      [] OTHER -> messages

\* An exception str(e) = err is raised at position loc; r is the run history
\* up to the raising call.
Raise(loc, err, r) ==
    /\ messages' = Caught(loc, err)
    /\ pc' = OnError(loc)
    /\ run' = [r EXCEPT !.failed = @ \cup {loc}]

\* session[key] = value, recorded in the run history
Assigned(r, keys) == [r EXCEPT !.wrote = @ \cup keys]

\* ------------------------------------------------------ generate(): entry
\* GenerateBegin that also clears step_fetch, and no other step flag
GenerateBegin_ResetFetchOnly(custom_prompt) ==
    /\ Resting
    /\ runs + 1 \in Runs
    /\ runs' = runs + 1
    /\ messages' = <<>>
    /\ session' = [session EXCEPT !.messages = <<>>,
                                  !.custom_prompt = custom_prompt,
                                  !.step_fetch = FALSE]
    /\ run' = [Assigned(NoRun, {"messages", "step_fetch"}) EXCEPT
                  !.absentAtStart = ~Exists(tokenJson)]
    /\ creds' = NoCreds
    /\ events' = <<>>
    /\ tasks' = <<>>
    /\ event_dicts' = <<>>
    /\ created_events' = <<>>
    /\ idx' = 0
    /\ auth_error' = ""
    /\ pc' = "ggs_load"
    /\ UNCHANGED <<tokenJson, tokenPickle, promptFile, live,
                   nextTok, calendar, threads>>

\* lines 588-593
GenerateBegin(custom_prompt) ==
    /\ Resting
    /\ runs + 1 \in Runs
    /\ runs' = runs + 1
    /\ messages' = <<>>
    /\ session' = [session EXCEPT !.messages = <<>>,
                                  !.custom_prompt = custom_prompt]
    /\ run' = [Assigned(NoRun, {"messages"}) EXCEPT
                  !.absentAtStart = ~Exists(tokenJson)]
    /\ creds' = NoCreds
    /\ events' = <<>>
    /\ tasks' = <<>>
    /\ event_dicts' = <<>>
    /\ created_events' = <<>>
    /\ idx' = 0
    /\ auth_error' = ""
    /\ pc' = "ggs_load"
    /\ UNCHANGED <<tokenJson, tokenPickle, promptFile, live,
                   nextTok, calendar, threads>>

\* ------------------------------------------------- get_google_services()
\* GgsBranch going on to build the services when there is no credential
GgsBranch_NoneProceeds(c) ==
    IF c.st # "ok" \/ Valid(c) THEN "ggs_build"
    ELSE IF Expired(c) /\ c.rt THEN "ggs_refresh"
    ELSE "ggs_flow"

\* GgsBranch refreshing whenever there is a refresh token
GgsBranch_EagerRefresh(c) ==
    IF c.st = "ok" /\ c.rt THEN "ggs_refresh"
    ELSE IF c.st = "ok" /\ Valid(c) THEN "ggs_build"
    ELSE "ggs_flow"

\* lines 226-229: which branch is taken for the credential read
GgsBranch(c) ==
    IF c.st = "ok" /\ Valid(c) THEN "ggs_build"
    ELSE IF c.st = "ok" /\ Expired(c) /\ c.rt THEN "ggs_refresh"
    ELSE "ggs_flow"

\* lines 223-226: read token.json
GgsLoad ==
    /\ pc = "ggs_load"
    /\ LET r == [run EXCEPT !.loaded = tokenJson,
                            !.validAtLoad = Valid(tokenJson),
                            !.needsAuthAtLoad = NeedsAuth,
                            !.pickleAtLoad = tokenPickle]
       IN IF tokenJson.st = "corrupt"
          THEN /\ Raise("ggs_load", "ValueError", r)
               /\ creds' = creds
          ELSE /\ creds' = tokenJson
               /\ pc' = GgsBranch(tokenJson)
               /\ run' = r
               /\ UNCHANGED messages
    /\ UNCHANGED <<tokenJson, tokenPickle, promptFile, live,
                   nextTok, calendar, session, events, tasks, event_dicts,
                   created_events, idx, runs, threads, auth_error>>

\* line 228: creds.refresh(Request())
GgsRefresh ==
    /\ pc = "ggs_refresh"
    /\ LET r == [run EXCEPT !.refresh = @ + 1] IN
       \/ /\ nextTok \in Tokens
          /\ creds' = Cred(nextTok, creds.rt)
          /\ live' = live \cup {nextTok}
          /\ nextTok' = nextTok + 1
          /\ pc' = "ggs_write_json"
          /\ run' = r
          /\ UNCHANGED messages
       \/ /\ Raise("ggs_refresh", "RefreshError", r)
          /\ UNCHANGED <<creds, live, nextTok>>
    /\ UNCHANGED <<tokenJson, tokenPickle, promptFile, calendar,
                   session, events, tasks, event_dicts, created_events, idx,
                   runs, threads, auth_error>>

\* lines 231-252: start the browser flow; line 600-601: redirect to /auth
GgsFlow ==
    /\ pc = "ggs_flow"
    /\ LET r == [run EXCEPT !.flow = @ + 1] IN
       \/ /\ session' = [session EXCEPT !.auth_url = AuthUrl,
                                        !.auth_flow = "active"]
          /\ pc' = "AuthPending"
          /\ run' = r
          /\ UNCHANGED messages
       \/ /\ Raise("ggs_flow", "Authentication failed", r)
          /\ UNCHANGED session
    /\ UNCHANGED <<tokenJson, tokenPickle, promptFile, live,
                   nextTok, calendar, creds, events, tasks, event_dicts,
                   created_events, idx, runs, threads, auth_error>>

\* lines 255-256: write token.json
GgsWriteJson ==
    /\ pc = "ggs_write_json"
    /\ \E outcome \in WriteOutcomes :
          LET r == [run EXCEPT !.ggs_writes = @ + 1] IN
          /\ tokenJson' = Written(tokenJson, creds, outcome)
          /\ IF outcome = "ok"
             THEN /\ pc' = "ggs_write_pickle"
                  /\ run' = r
                  /\ UNCHANGED messages
             ELSE Raise("ggs_write_json", "OSError", r)
    /\ UNCHANGED <<tokenPickle, promptFile, live, nextTok,
                   calendar, session, creds, events, tasks, event_dicts,
                   created_events, idx, runs, threads, auth_error>>

\* lines 259-260: write token.pickle
GgsWritePickle ==
    /\ pc = "ggs_write_pickle"
    /\ \E outcome \in WriteOutcomes :
          LET r == [run EXCEPT !.ggs_writes = @ + 1] IN
          /\ tokenPickle' = Written(tokenPickle, creds, outcome)
          /\ IF outcome = "ok"
             THEN /\ pc' = "ggs_build"
                  /\ run' = r
                  /\ UNCHANGED messages
             ELSE Raise("ggs_write_pickle", "OSError", r)
    /\ UNCHANGED <<tokenJson, promptFile, live, nextTok,
                   calendar, session, creds, events, tasks, event_dicts,
                   created_events, idx, runs, threads, auth_error>>

\* lines 262-264: build the two services and return them
GgsBuild ==
    /\ pc = "ggs_build"
    /\ \/ /\ pc' = "fetch_events"
          /\ UNCHANGED <<messages, run>>
       \/ Raise("ggs_build", "HttpError", run)
    /\ UNCHANGED <<tokenJson, tokenPickle, promptFile, live,
                   nextTok, calendar, session, creds, events, tasks,
                   event_dicts, created_events, idx, runs, threads, auth_error>>

\* ------------------------------------------------- generate(): step 1
\* line 603: fetch_todays_events(cal_service)
FetchEvents ==
    /\ pc = "fetch_events"
    /\ LET r == [run EXCEPT !.list_events = @ + 1] IN
       \/ \E items \in FetchResults(Meeting) :
             /\ events' = items
             /\ pc' = "fetch_tasks"
             /\ run' = r
             /\ UNCHANGED messages
       \/ /\ Raise("fetch_events", "HttpError", r)
          /\ UNCHANGED events
    /\ UNCHANGED <<tokenJson, tokenPickle, promptFile, live,
                   nextTok, calendar, session, creds, tasks, event_dicts,
                   created_events, idx, runs, threads, auth_error>>

\* lines 604-608: fetch_tasks(tasks_service), then the session is assigned
FetchTasks ==
    /\ pc = "fetch_tasks"
    /\ LET r == [run EXCEPT !.list_tasks = @ + 1] IN
       \/ \E items \in FetchResults(Chore) :
             /\ tasks' = items
             /\ session' = [session EXCEPT !.events = events,
                                           !.tasks = items,
                                           !.step_fetch = TRUE]
             /\ pc' = "save_prompt"
             /\ run' = Assigned(r, {"events", "tasks", "step_fetch"})
             /\ UNCHANGED messages
       \/ /\ Raise("fetch_tasks", "HttpError", r)
          /\ UNCHANGED <<tasks, session>>
    /\ UNCHANGED <<tokenJson, tokenPickle, promptFile, live,
                   nextTok, calendar, creds, events, event_dicts,
                   created_events, idx, runs, threads, auth_error>>

\* A text is the sequence of its lines and a line the sequence of the pieces
\* of the f-string that wrote it; an empty line is <<>>.
\* lines 314-316
event_line(ev) ==
    <<"- ", Get(ev, "summary", "(no title)"),
      " from ", Get(ev.start, "dateTime", Get(ev.start, "date", "None")),
      " to ", Get(ev.end, "dateTime", Get(ev.end, "date", "None"))>>

\* task_line with the parent suffix written for every task
task_line_AlwaysSuffix(t) ==
    <<"- ", Get(t, "title", "(no title)"), ", due ", Get(t, "due", "none"),
      ", subtask of ", Get(t, "parent", "None")>>

\* lines 320-323
task_line(t) ==
    <<"- ", Get(t, "title", "(no title)"), ", due ", Get(t, "due", "none")>>
        \o (IF Get(t, "parent", "") # ""
            THEN <<", subtask of ", t.parent>>
            ELSE <<>>)

\* lines 310-325: header, one line per event, an empty line, header, one
\* line per task, an empty line and the custom text
build_full_prompt(evs, ts, custom) ==
    << <<"Today's calendar events:">> >>
        \o [i \in 1..Len(evs) |-> event_line(evs[i])]
        \o << <<>>, <<"Today's tasks with deadlines and parents:">> >>
        \o [j \in 1..Len(ts) |-> task_line(ts[j])]
        \o << <<>>, <<custom>> >>

\* lines 611-618: build the prompt, write prompt.txt, append the message
SavePrompt ==
    /\ pc = "save_prompt"
    /\ \/ /\ promptFile' = build_full_prompt(events, tasks, session.custom_prompt)
          /\ messages' = Append(messages, FetchedMsg(Len(events), Len(tasks)))
          /\ pc' = "generate_events"
          /\ UNCHANGED run
       \/ /\ Raise("save_prompt", "OSError", run)
          /\ UNCHANGED promptFile
    /\ UNCHANGED <<tokenJson, tokenPickle, live, nextTok,
                   calendar, session, creds, events, tasks, event_dicts,
                   created_events, idx, runs, threads, auth_error>>

\* ------------------------------------------------- generate(): step 2
\* lines 622-625: generate_events(full_prompt) and model_dump of each event
GenerateEvents ==
    /\ pc = "generate_events"
    /\ LET r == [run EXCEPT !.model = @ + 1] IN
       \/ \E calendar_events \in GenResults :
             /\ event_dicts' = calendar_events
             /\ pc' = "save_events"
             /\ run' = r
             /\ UNCHANGED messages
       \/ /\ Raise("generate_events", "GenerationError", r)
          /\ UNCHANGED event_dicts
    /\ UNCHANGED <<tokenJson, tokenPickle, promptFile, live,
                   nextTok, calendar, session, creds, events, tasks,
                   created_events, idx, runs, threads, auth_error>>

\* lines 628-638: write events.json, assign the session, append the message
SaveEvents ==
    /\ pc = "save_events"
    /\ \/ /\ session' = [session EXCEPT !.generated_events = event_dicts,
                                        !.generated_events_json = event_dicts,
                                        !.step_generate = TRUE]
          /\ messages' = Append(messages, GeneratedMsg(Len(event_dicts)))
          /\ pc' = "gcs_load"
          /\ run' = Assigned(run, {"generated_events",
                                   "generated_events_json", "step_generate"})
       \/ /\ Raise("save_events", "OSError", run)
          /\ UNCHANGED session
    /\ UNCHANGED <<tokenJson, tokenPickle, promptFile, live, nextTok,
                   calendar, creds, events, tasks, event_dicts,
                   created_events, idx, runs, threads, auth_error>>

\* ------------------------------------------------ get_calendar_service()
\* lines 268-277: read token.pickle, fall back to token.json
GcsLoad ==
    /\ pc = "gcs_load"
    /\ LET r == [run EXCEPT !.calendar_service = @ + 1] IN
       IF tokenPickle.st = "corrupt"
       THEN /\ Raise("gcs_load", "UnpicklingError", r)
            /\ UNCHANGED creds
       ELSE IF Valid(tokenPickle)
       THEN /\ creds' = tokenPickle
            /\ pc' = "gcs_build"
            /\ run' = r
            /\ UNCHANGED messages
       ELSE IF tokenJson.st = "corrupt"
       THEN /\ Raise("gcs_load", "ValueError", r)
            /\ UNCHANGED creds
       ELSE IF Valid(tokenJson)
       THEN /\ creds' = tokenJson
            /\ pc' = "gcs_write"
            /\ run' = r
            /\ UNCHANGED messages
       ELSE /\ Raise("gcs_load", "Please authenticate first via the homepage", r)
            /\ UNCHANGED creds
    /\ UNCHANGED <<tokenJson, tokenPickle, promptFile, live,
                   nextTok, calendar, session, events, tasks, event_dicts,
                   created_events, idx, runs, threads, auth_error>>

\* lines 280-281: write token.pickle
GcsWrite ==
    /\ pc = "gcs_write"
    /\ \E outcome \in WriteOutcomes :
          /\ tokenPickle' = Written(tokenPickle, creds, outcome)
          /\ IF outcome = "ok"
             THEN /\ pc' = "gcs_build"
                  /\ UNCHANGED <<messages, run>>
             ELSE Raise("gcs_write", "OSError", run)
    /\ UNCHANGED <<tokenJson, promptFile, live, nextTok,
                   calendar, session, creds, events, tasks, event_dicts,
                   created_events, idx, runs, threads, auth_error>>

\* line 283: build the service; line 642: created_events = []
GcsBuild ==
    /\ pc = "gcs_build"
    /\ \/ /\ pc' = "create"
          /\ created_events' = <<>>
          /\ idx' = 1
          /\ UNCHANGED <<messages, run>>
       \/ /\ Raise("gcs_build", "HttpError", run)
          /\ UNCHANGED <<created_events, idx>>
    /\ UNCHANGED <<tokenJson, tokenPickle, promptFile, live,
                   nextTok, calendar, session, creds, events, tasks,
                   event_dicts, runs, threads, auth_error>>

\* ------------------------------------------------ create_calendar_event()
\* position from which line 397 looks for the '-' of a UTC offset
OffsetFrom == 10

\* dateutil.parser.parse(s).isoformat(): <<the string>>, or None when parse
\* raises.  A naive datetime prints without offset, an aware one with it.
parse_isoformat(s) ==
    CASE s \in {IsoNaive, IsoSpace} -> Some(IsoNaive)
      [] s \in {IsoZulu, IsoUtc} -> Some(IsoUtc)
      [] s \in {IsoEast, IsoWest} -> Some(s)
      [] OTHER -> None

\* str.replace(old, new) for one-character strings: every occurrence
Replace(s, old, new) == [i \in 1..Len(s) |-> IF s[i] = old THEN new ELSE s[i]]

\* c in s
In(c, s) == \E i \in 1..Len(s) : s[i] = c

\* Truthy with an empty str or list counted as true
Truthy_Present(o) == o # None

\* truth value of an optional str or list: None and empty ones are false
Truthy(o) == o # None /\ Len(o[1]) > 0

\* lines 377-394: start_iso and end_iso, from the parser or from the fallback
iso_strings(ev) ==
    LET start_dt == parse_isoformat(ev.start_datetime)
        end_dt == parse_isoformat(ev.end_datetime)
    IN IF start_dt # None /\ end_dt # None
       THEN [start |-> start_dt[1], end |-> end_dt[1]]
       ELSE [start |-> Replace(ev.start_datetime, " ", "T"),
             end |-> Replace(ev.end_datetime, " ", "T")]

\* lines 397-400
with_zone(s) ==
    IF ~In("Z", s) /\ ~In("+", s) /\ ~In("-", SubSeq(s, OffsetFrom + 1, Len(s)))
    THEN Append(s, "Z")
    ELSE s

\* lines 402-421: the body of the insert request; timeZone is an optional value
event_body(ev) ==
    LET iso == iso_strings(ev)
        optional(key, k) ==
            IF Truthy(Get(ev, key, None)) THEN k :> ev[key][1] ELSE <<>>
    IN [summary |-> ev.summary,
        start |-> [dateTime |-> with_zone(iso.start),
                   timeZone |-> Get(ev, "timezone", Some("UTC"))],
        end |-> [dateTime |-> with_zone(iso.end),
                 timeZone |-> Get(ev, "timezone", Some("UTC"))]]
       @@ optional("description", "description")
       @@ optional("location", "location")
       @@ optional("color_id", "colorId")
       @@ (IF Truthy(Get(ev, "attendees", None))
           THEN "attendees" :> [i \in 1..Len(ev.attendees[1]) |->
                                   [email |-> ev.attendees[1][i]]]
           ELSE <<>>)

\* build_request with the parser's exception left uncaught
build_request_Uncaught(ev) ==
    [raised |-> parse_isoformat(ev.start_datetime) = None
                    \/ parse_isoformat(ev.end_datetime) = None,
     body |-> event_body(ev)]

\* lines 377-421, up to the insert call: the parser's exception is caught at
\* line 383 and nothing else raises, so the request is always built
build_request(ev) == [raised |-> FALSE, body |-> event_body(ev)]

\* events().insert with a dedup key: an event already there is not added
events_insert_Dedup(cal, body) ==
    IF cal[body.summary] > 0 THEN cal ELSE [cal EXCEPT ![body.summary] = @ + 1]

\* lines 425-428, accepted by the provider: one more event in the calendar
events_insert(cal, body) == [cal EXCEPT ![body.summary] = @ + 1]

\* ------------------------------------------------- generate(): step 3
\* lines 644-655: one iteration of `for ev in event_dicts`; the insert
\* request of lines 425-428 is accepted or rejected by the provider
CreateEvent ==
    /\ pc = "create"
    /\ idx <= Len(event_dicts)
    /\ LET ev == event_dicts[idx]
           request == build_request(ev)
           r == [run EXCEPT !.inserts = Append(@, idx),
                            !.bodies = Append(@, request.body)]
       IN IF request.raised
          THEN /\ Raise("create", "ParserError",
                        [run EXCEPT !.insertFailed = @ \cup {idx}])
               /\ idx' = idx + 1
               /\ UNCHANGED <<calendar, created_events>>
          ELSE \/ /\ calendar' = events_insert(calendar, request.body)
                  /\ created_events' =
                         Append(created_events,
                                [summary |-> ev.summary, link |-> "htmlLink"])
                  /\ idx' = idx + 1
                  /\ run' = r
                  /\ UNCHANGED <<pc, messages>>
               \/ /\ Raise("create", "HttpError",
                           [r EXCEPT !.insertFailed = @ \cup {idx}])
                  /\ idx' = idx + 1
                  /\ UNCHANGED <<calendar, created_events>>
    /\ UNCHANGED <<tokenJson, tokenPickle, promptFile, live,
                   nextTok, session, creds, events, tasks, event_dicts, runs, threads, auth_error>>

\* lines 657-663: after the loop
CreateDone ==
    /\ pc = "create"
    /\ idx > Len(event_dicts)
    /\ session' = [session EXCEPT !.created_events = created_events,
                                  !.step_create = TRUE]
    /\ messages' = Append(messages, CreatedMsg(Len(created_events)))
    /\ run' = Assigned(run, {"created_events", "step_create"})
    /\ pc' = "finish"
    /\ UNCHANGED <<tokenJson, tokenPickle, promptFile, live,
                   nextTok, calendar, creds, events, tasks, event_dicts,
                   created_events, idx, runs, threads, auth_error>>

\* lines 674-675; the locals other than `messages` are dropped on return
Finish ==
    /\ pc = "finish"
    /\ session' = [session EXCEPT !.messages = messages]
    /\ pc' = "Done"
    /\ creds' = NoCreds
    /\ events' = <<>>
    /\ tasks' = <<>>
    /\ event_dicts' = <<>>
    /\ created_events' = <<>>
    /\ idx' = 0
    /\ UNCHANGED <<tokenJson, tokenPickle, promptFile, live,
                   nextTok, calendar, messages, run, runs, threads, auth_error>>

\* ------------------------------------------------------------------ home()
\* lines 436-464
Home ==
    /\ Resting
    /\ session' = [session EXCEPT !.messages = <<>>]
    /\ auth_error' = ""
    /\ pc' = "Idle"
    /\ messages' = <<>>
    /\ creds' = NoCreds
    /\ run' = NoRun
    /\ UNCHANGED <<tokenJson, tokenPickle, promptFile, live,
                   nextTok, calendar, events, tasks,
                   event_dicts, created_events, idx, runs, threads>>

\* ------------------------------------------------------------------ auth()
\* flow.fetch_token(code) returned the credential c; token.json is written,
\* then token.pickle (lines 488-493 and 533-538)
SaveGrant(c, jsonOutcome, pickleOutcome) ==
    /\ tokenJson' = Written(tokenJson, c, jsonOutcome)
    /\ tokenPickle' = IF jsonOutcome = "ok"
                        THEN Written(tokenPickle, c, pickleOutcome)
                        ELSE tokenPickle
    /\ live' = live \cup {c.tok}
    /\ nextTok' = nextTok + 1

AuthOkMsg == Msg("success", <<"Authentication successful!">>)
AuthFailedMsg == Msg("error", <<"Authentication failed: ", "error">>)

\* lines 473-508: GET /auth?code=...
AuthCallback ==
    /\ Resting
    /\ pc' = "Idle"
    /\ messages' = <<>>
    /\ creds' = NoCreds
    /\ run' = NoRun
    /\ auth_error' = ""
    /\ \/ /\ session' = [session EXCEPT !.messages = <<AuthFailedMsg>>]
          /\ UNCHANGED <<tokenJson, tokenPickle, live, nextTok>>
       \/ /\ nextTok \in Tokens
          /\ \E rt \in BOOLEAN, j \in WriteOutcomes, p \in WriteOutcomes :
                /\ SaveGrant(Cred(nextTok, rt), j, p)
                /\ session' =
                      IF j = "ok" /\ p = "ok"
                      THEN [session EXCEPT !.auth_url = "", !.auth_flow = "",
                                           !.messages = <<AuthOkMsg>>]
                      ELSE [session EXCEPT !.messages = <<AuthFailedMsg>>]
    /\ UNCHANGED <<promptFile, calendar, events, tasks,
                   event_dicts, created_events, idx, runs, threads>>

\* lines 511-555: POST /auth with the form field `code`
AuthPost ==
    /\ Resting
    /\ pc' = "Idle"
    /\ messages' = <<>>
    /\ creds' = NoCreds
    /\ run' = NoRun
    /\ \/ /\ auth_error' = "Authorization code is required"
          /\ UNCHANGED <<tokenJson, tokenPickle, live, nextTok, session>>
       \/ /\ auth_error' = "Authentication failed: error"
          /\ UNCHANGED <<tokenJson, tokenPickle, live, nextTok, session>>
       \/ /\ nextTok \in Tokens
          /\ \E rt \in BOOLEAN, j \in WriteOutcomes, p \in WriteOutcomes :
                /\ SaveGrant(Cred(nextTok, rt), j, p)
                /\ IF j = "ok" /\ p = "ok"
                   THEN /\ session' = [session EXCEPT !.auth_url = "",
                                                     !.auth_flow = "",
                                                     !.messages = <<AuthOkMsg>>]
                        /\ auth_error' = ""
                   ELSE /\ session' = session
                        /\ auth_error' = "Authentication failed: error"
    /\ UNCHANGED <<promptFile, calendar, events, tasks,
                   event_dicts, created_events, idx, runs, threads>>

\* ------------------------------------------------------------ environment
\* The clock passes the expiry time of access token t
\* (Credentials.expired, read at lines 226-227, 272, 276 and 459).
Expire ==
    /\ \E t \in live : live' = live \ {t}
    /\ UNCHANGED <<tokenJson, tokenPickle, promptFile, nextTok,
                   calendar, session, pc, messages, creds, events, tasks,
                   event_dicts, created_events, idx, run, runs, threads, auth_error>>

Next ==
    \/ \E custom_prompt \in Prompts : GenerateBegin(custom_prompt)
    \/ GgsLoad
    \/ GgsRefresh
    \/ GgsFlow
    \/ GgsWriteJson
    \/ GgsWritePickle
    \/ GgsBuild
    \/ FetchEvents
    \/ FetchTasks
    \/ SavePrompt
    \/ GenerateEvents
    \/ SaveEvents
    \/ GcsLoad
    \/ GcsWrite
    \/ GcsBuild
    \/ CreateEvent
    \/ CreateDone
    \/ Finish
    \/ Home
    \/ AuthCallback
    \/ AuthPost
    \/ Expire

Spec == Init /\ [][Next]_vars

\* ------------------------------------ concurrent get_google_services()
\* Two requests are served at the same time, each by its own thread; both
\* call get_google_services (lines 223-264) on the same two files.
\* what a thread in get_google_services leaves alone
requestVars == <<promptFile, calendar, pc, messages, creds, events, tasks,
                 event_dicts, created_events, idx, auth_error, run, runs>>

\* lines 223-229 by thread t: read token.json and branch
Load(t) ==
    /\ threads[t].pc = "ggs_load"
    /\ threads' = [threads EXCEPT ![t] =
                      IF tokenJson.st = "corrupt"
                      THEN Thread("raised", NoCreds, tokenJson, FALSE)
                      ELSE Thread(GgsBranch(tokenJson), tokenJson, tokenJson,
                                  FALSE)]
    /\ UNCHANGED <<tokenJson, tokenPickle, live, nextTok, session>>
    /\ UNCHANGED requestVars

\* the section from the read of token.json to the write of token.pickle
Critical == {"ggs_refresh", "ggs_flow", "ggs_write_json", "ggs_write_pickle"}

\* ThreadLoad under a lock held from the read to the last write
ThreadLoad_Locked(t) ==
    /\ \A u \in Threads \ {t} : threads[u].pc \notin Critical
    /\ Load(t)

\* lines 223-229 are entered without taking any lock
ThreadLoad(t) == Load(t)

\* line 228 by thread t
ThreadRefresh(t) ==
    /\ threads[t].pc = "ggs_refresh"
    /\ \/ /\ threads' = [threads EXCEPT
                            ![t].creds = Cred(nextTok, @.rt),
                            ![t].refreshed = TRUE,
                            ![t].pc = "ggs_write_json"]
          /\ live' = live \cup {nextTok}
          /\ nextTok' = nextTok + 1
       \/ /\ threads' = [threads EXCEPT ![t].pc = "raised"]
          /\ UNCHANGED <<live, nextTok>>
    /\ UNCHANGED <<tokenJson, tokenPickle, session>>
    /\ UNCHANGED requestVars

\* lines 231-252 by thread t
ThreadFlow(t) ==
    /\ threads[t].pc = "ggs_flow"
    /\ \/ /\ threads' = [threads EXCEPT ![t].pc = "auth_pending"]
          /\ session' = [session EXCEPT !.auth_url = AuthUrl,
                                        !.auth_flow = "active"]
       \/ /\ threads' = [threads EXCEPT ![t].pc = "raised"]
          /\ UNCHANGED session
    /\ UNCHANGED <<tokenJson, tokenPickle, live, nextTok>>
    /\ UNCHANGED requestVars

\* lines 255-256 by thread t
ThreadWriteJson(t) ==
    /\ threads[t].pc = "ggs_write_json"
    /\ \E outcome \in WriteOutcomes :
          /\ tokenJson' = Written(tokenJson, threads[t].creds, outcome)
          /\ threads' = [threads EXCEPT ![t].pc =
                            IF outcome = "ok" THEN "ggs_write_pickle"
                            ELSE "raised"]
    /\ UNCHANGED <<tokenPickle, live, nextTok, session>>
    /\ UNCHANGED requestVars

\* lines 259-260 by thread t
ThreadWritePickle(t) ==
    /\ threads[t].pc = "ggs_write_pickle"
    /\ \E outcome \in WriteOutcomes :
          /\ tokenPickle' = Written(tokenPickle, threads[t].creds, outcome)
          /\ threads' = [threads EXCEPT ![t].pc =
                            IF outcome = "ok" THEN "ggs_build" ELSE "raised"]
    /\ UNCHANGED <<tokenJson, live, nextTok, session>>
    /\ UNCHANGED requestVars

\* lines 262-264 by thread t
ThreadBuild(t) ==
    /\ threads[t].pc = "ggs_build"
    /\ \/ threads' = [threads EXCEPT ![t].pc = "returned"]
       \/ threads' = [threads EXCEPT ![t].pc = "raised"]
    /\ UNCHANGED <<tokenJson, tokenPickle, live, nextTok, session>>
    /\ UNCHANGED requestVars

\* both files hold the credential of an earlier grant (valid or expired, with
\* or without refresh token) or nothing; both threads are about to read
InitRace ==
    /\ tokenJson \in {NoCreds, Cred(1, TRUE), Cred(1, FALSE)}
    /\ tokenPickle = tokenJson
    /\ live \in SUBSET {1}
    /\ tokenJson = NoCreds => live = {}
    /\ nextTok = 2
    /\ promptFile = <<>>
    /\ calendar = [t \in Titles |-> 0]
    /\ session = EmptySession
    /\ pc = "Idle"
    /\ messages = <<>>
    /\ creds = NoCreds
    /\ events = <<>>
    /\ tasks = <<>>
    /\ event_dicts = <<>>
    /\ created_events = <<>>
    /\ idx = 0
    /\ run = NoRun
    /\ auth_error = ""
    /\ runs = 0
    /\ threads = [t \in Threads |-> Thread("ggs_load", NoCreds, NoCreds, FALSE)]

NextRace ==
    \/ \E t \in Threads : ThreadLoad(t)
    \/ \E t \in Threads : ThreadRefresh(t)
    \/ \E t \in Threads : ThreadFlow(t)
    \/ \E t \in Threads : ThreadWriteJson(t)
    \/ \E t \in Threads : ThreadWritePickle(t)
    \/ \E t \in Threads : ThreadBuild(t)

SpecRace == InitRace /\ [][NextRace]_vars

\* ------------------------------------------------- the prompt step alone
MaxListed == 2      \* longest list of fetched events, of fetched tasks

\* items of events().list (timed or all-day, with or without summary) and of
\* tasks().list (with or without title, due and parent)
ListedEvents ==
    {Meeting,
     [start |-> [dateTime |-> "2024-05-01T11:00:00Z"],
      end |-> [dateTime |-> "2024-05-01T12:00:00Z"]],
     [summary |-> "Holiday", start |-> [date |-> "2024-05-01"],
      end |-> [date |-> "2024-05-02"]]}
ListedTasks ==
    {Chore,
     [title |-> "Call Ana"],
     [title |-> "Draft outline", parent |-> "task-17"],
     [due |-> "2024-05-03T00:00:00.000Z", parent |-> "task-17"]}
Lists(S) == UNION {[1..n -> S] : n \in 0..MaxListed}
CustomTexts == {"", "plan my day\nno meetings before 10"}

\* generate() at line 611 of a first run: credentials valid, events and
\* tasks fetched and assigned to the session
InitPrompt ==
    /\ tokenJson = Cred(1, TRUE)
    /\ tokenPickle = Cred(1, TRUE)
    /\ promptFile = <<>>
    /\ live = {1}
    /\ nextTok = 2
    /\ calendar = [t \in Titles |-> 0]
    /\ events \in Lists(ListedEvents)
    /\ tasks \in Lists(ListedTasks)
    /\ \E custom \in CustomTexts :
          session = [EmptySession EXCEPT !.custom_prompt = custom,
                                         !.events = events,
                                         !.tasks = tasks,
                                         !.step_fetch = TRUE]
    /\ pc = "save_prompt"
    /\ messages = <<>>
    /\ creds = Cred(1, TRUE)
    /\ event_dicts = <<>>
    /\ created_events = <<>>
    /\ idx = 0
    /\ run = [NoRun EXCEPT
                 !.loaded = Cred(1, TRUE), !.validAtLoad = TRUE,
                 !.pickleAtLoad = Cred(1, TRUE),
                 !.wrote = {"messages", "events", "tasks", "step_fetch"},
                 !.list_events = 1, !.list_tasks = 1]
    /\ auth_error = ""
    /\ runs = 1
    /\ threads = NoThreads

NextPrompt ==
    \/ SavePrompt
    \/ Finish

SpecPrompt == InitPrompt /\ [][NextPrompt]_vars

\* ----------------------------------------------- the creating step alone
\* dicts of generated events: every pair of datetime strings; every
\* combination of optional fields
OptionalText == {None, Some(""), Some("text")}
OptionalList == {None, Some(<<>>), Some(<<"a@example.com">>),
                 Some(<<"a@example.com", "b@example.com">>)}
TimedEvents ==
    {[GenEvent(2) EXCEPT !.start_datetime = s, !.end_datetime = e] :
        s \in DateTimeStrings, e \in DateTimeStrings}
DetailedEvents ==
    {[summary |-> Title(1), start_datetime |-> IsoNaive,
      end_datetime |-> IsoWest, description |-> d, location |-> l,
      color_id |-> c, attendees |-> a, timezone |-> z] :
        d \in OptionalText, l \in OptionalText, c \in OptionalText,
        a \in OptionalList, z \in {None, Some("Europe/Paris")}}
Batches ==
    {<<ev>> : ev \in TimedEvents \cup DetailedEvents}
        \cup {<<GenEvent(1), ev>> : ev \in TimedEvents}

\* generate() at line 642 of a first run: credentials valid, nothing
\* fetched, the events of one batch generated, the calendar service obtained
InitCreate ==
    /\ tokenJson = Cred(1, TRUE)
    /\ tokenPickle = Cred(1, TRUE)
    /\ promptFile = build_full_prompt(<<>>, <<>>, "plan my day")
    /\ live = {1}
    /\ nextTok = 2
    /\ calendar = [t \in Titles |-> 0]
    /\ event_dicts \in Batches
    /\ session = [EmptySession EXCEPT
                     !.custom_prompt = "plan my day",
                     !.step_fetch = TRUE,
                     !.step_generate = TRUE,
                     !.generated_events = event_dicts,
                     !.generated_events_json = event_dicts]
    /\ pc = "create"
    /\ messages = <<FetchedMsg(0, 0), GeneratedMsg(Len(event_dicts))>>
    /\ creds = Cred(1, TRUE)
    /\ events = <<>>
    /\ tasks = <<>>
    /\ created_events = <<>>
    /\ idx = 1
    /\ run = [NoRun EXCEPT
                 !.loaded = Cred(1, TRUE), !.validAtLoad = TRUE,
                 !.pickleAtLoad = Cred(1, TRUE),
                 !.wrote = {"messages", "events", "tasks", "step_fetch",
                            "generated_events", "generated_events_json",
                            "step_generate"},
                 !.list_events = 1, !.list_tasks = 1, !.model = 1,
                 !.calendar_service = 1]
    /\ auth_error = ""
    /\ runs = 1
    /\ threads = NoThreads

NextCreate ==
    \/ CreateEvent
    \/ CreateDone
    \/ Finish

SpecCreate == InitCreate /\ [][NextCreate]_vars

\* ------------------------------------------------------------ properties
\* a run has just ended (no other request has been served since)
RunEnded == pc \in {"Done", "AuthPending"}

\* no provider list call, no model call and no insert was made in this run
NoStepCalls ==
    /\ run.list_events = 0
    /\ run.list_tasks = 0
    /\ run.model = 0
    /\ run.inserts = <<>>

\* step 3 was entered in this run: the calendar service was obtained
CreatingEntered ==
    /\ run.calendar_service = 1
    /\ run.failed \cap {"gcs_load", "gcs_write", "gcs_build"} = {}
    /\ pc \in {"finish", "Done"}

IsError(m) == m.type = "error"
IsCreateError(m) == m.type = "error" /\ m.text[1] = "Error creating event '"

\* C1: no exception escapes generate(): a run never ends by raising, and a
\* run that ends in Done has stored in the session exactly the messages it
\* accumulated; the only other way a run ends is AuthPending.
C1_RunCompletes ==
    /\ pc # "Raised"
    /\ pc = "Done" => session.messages = messages

\* a run in which some step failed has ended in Done with its messages stored
C1_Witness ==
    /\ pc = "Done"
    /\ run.failed # {}
    /\ messages # <<>>
    /\ session.messages = messages

\* C2: when a run has ended, every key of the WorkflowState in the session
\* was either assigned in this run or holds its initial value, i.e. nothing
\* produced by an earlier run is left for home() to show.
C2_StateReset ==
    RunEnded =>
        \A k \in StateKeys : k \in run.wrote \/ session[k] = EmptySession[k]

\* C3 as stated: a run started with no token.json ends in AuthPending with a
\* non-empty authorization URL in the session and without any step call.
C3_AbsentEndsAuthPending ==
    (RunEnded /\ run.absentAtStart) =>
        /\ pc = "AuthPending"
        /\ session.auth_url # ""
        /\ NoStepCalls

\* C3 amended: a run started with no token.json never makes a list call, a
\* model call or an insert; when the authorization request is built the run
\* ends in AuthPending with a non-empty authorization URL in the session,
\* and when building it fails the run ends in Done with one error message.
C3_AbsentNoSteps ==
    run.absentAtStart =>
        /\ NoStepCalls
        /\ RunEnded =>
              IF "ggs_flow" \in run.failed
              THEN /\ pc = "Done"
                   /\ Len(session.messages) = 1
                   /\ IsError(session.messages[1])
              ELSE /\ pc = "AuthPending"
                   /\ session.auth_url # ""
                   /\ session.auth_flow = "active"

\* a run started with no token.json has ended in AuthPending with the URL stored
C3_Witness ==
    /\ run.absentAtStart
    /\ pc = "AuthPending"
    /\ run.flow = 1
    /\ session.auth_url = AuthUrl

\* C4 as stated: a refreshed credential returned by get_google_services has
\* been written to both files, and a run whose refresh failed ends in
\* AuthPending with an authorization URL instead of an error.
C4_RefreshFailureReauthenticates ==
    /\ (run.refresh = 1 /\ pc = "ggs_build") =>
            (tokenJson = creds /\ tokenPickle = creds)
    /\ (RunEnded /\ "ggs_refresh" \in run.failed) =>
            (pc = "AuthPending" /\ session.auth_url # "")

\* C5: once a fetch has failed in a run, the run makes no model call, does not
\* ask for the calendar service and issues no insert; it goes straight to its
\* end with exactly one message, an error.
C5_FetchFailureAborts ==
    (run.failed \cap {"fetch_events", "fetch_tasks"} # {}) =>
        /\ run.model = 0
        /\ run.calendar_service = 0
        /\ run.inserts = <<>>
        /\ pc \in {"finish", "Done"}
        /\ Len(messages) = 1
        /\ IsError(messages[1])
        /\ pc = "Done" => session.messages = messages

\* a run whose task fetch failed (after the event fetch succeeded) has ended
C5_Witness ==
    /\ pc = "Done"
    /\ "fetch_tasks" \in run.failed
    /\ run.list_events = 1

\* C6 as stated: after a run in which the fetch succeeded and generate_events
\* raised, the session has step_fetch set, step_generate not set, no
\* created events and exactly one error message, which mentions generation.
C6_GenerationFailureState ==
    (pc = "Done" /\ "generate_events" \in run.failed) =>
        /\ session.step_fetch
        /\ ~session.step_generate
        /\ session.created_events = <<>>
        /\ Len(SelectSeq(session.messages, IsError)) = 1
        /\ \E i \in 1..Len(session.messages) :
              /\ IsError(session.messages[i])
              /\ session.messages[i].text[1] = "Error generating events: "

\* indexes 1..k in order; those whose insertion failed / succeeded in this run
Indexes(k) == [i \in 1..k |-> i]
InsertFailed(i) == i \in run.insertFailed
InsertSucceeded(i) == i \notin run.insertFailed

\* C7: when step 3 has been entered and the run has left it, every generated
\* event was submitted exactly once, in order; created_events holds exactly
\* the events whose insertion succeeded, in order; the creation errors are
\* one per failed insertion, in order, each naming that event's summary; the
\* last message reports the number of created events; successes and creation
\* errors add up to the number of generated events.
C7_CreatingStep ==
    CreatingEntered =>
        LET gen == session.generated_events
            k == Len(gen)
            ok == SelectSeq(Indexes(k), InsertSucceeded)
            ko == SelectSeq(Indexes(k), InsertFailed)
            errs == SelectSeq(messages, IsCreateError)
        IN /\ run.inserts = Indexes(k)
           /\ "step_create" \in run.wrote
           /\ session.step_create
           /\ session.created_events =
                 [j \in 1..Len(ok) |->
                     [summary |-> gen[ok[j]].summary, link |-> "htmlLink"]]
           /\ errs = [j \in 1..Len(ko) |->
                        [type |-> "error",
                         text |-> <<"Error creating event '",
                                    gen[ko[j]].summary, "': ", "HttpError">>]]
           /\ messages[Len(messages)] =
                 [type |-> "success",
                  text |-> <<"Created ", ToString(Len(session.created_events)),
                             " events in your Google Calendar">>]
           /\ Len(session.created_events) + Len(errs) = k

\* two events were generated, the first insertion failed, the second succeeded
C7_Witness ==
    /\ CreatingEntered
    /\ pc = "Done"
    /\ Len(session.generated_events) = 2
    /\ run.insertFailed = {1}
    /\ Len(session.created_events) = 1

\* C8: a run in which nothing failed (fetch of n events and m tasks,
\* generation of k events, the calendar service, every insertion) ends with
\* exactly the three success messages fetch, generate, create carrying
\* (n, m), k and k, and with k created events.
C8_AllSucceed ==
    (pc = "Done" /\ CreatingEntered /\ run.failed = {}) =>
        LET n == Len(session.events)
            m == Len(session.tasks)
            k == Len(session.generated_events)
        IN /\ {"events", "tasks", "generated_events"} \subseteq run.wrote
           /\ session.messages =
                 << [type |-> "success",
                     text |-> <<"Fetched ", ToString(n), " events and ",
                                ToString(m), " tasks">>],
                    [type |-> "success",
                     text |-> <<"Generated ", ToString(k), " calendar events">>],
                    [type |-> "success",
                     text |-> <<"Created ", ToString(k),
                                " events in your Google Calendar">>] >>
           /\ Len(session.created_events) = k

\* a fully successful run with different numbers of events and tasks
C8_Witness ==
    /\ pc = "Done"
    /\ CreatingEntered
    /\ run.failed = {}
    /\ Len(session.events) = MaxFetched
    /\ Len(session.tasks) = 0
    /\ Len(session.generated_events) = MaxGen
    /\ Len(session.created_events) = MaxGen

\* C9 as stated: between requests token.json and token.pickle hold the same
\* credential, or neither holds one.
C9_FilesInSync ==
    Resting =>
        \/ tokenJson.st = "ok" /\ tokenPickle = tokenJson
        \/ tokenJson.st # "ok" /\ tokenPickle.st # "ok"

\* C10: when token.json held a valid credential as get_google_services read
\* it, the function returns that credential, both files are as they were, and
\* no refresh, no authorization request and no file write was made.
C10_ValidReturnedUnchanged ==
    (run.validAtLoad /\ pc \in {"ggs_build", "fetch_events"}) =>
        /\ creds = run.loaded
        /\ tokenJson = run.loaded
        /\ tokenPickle = run.pickleAtLoad
        /\ run.refresh = 0
        /\ run.flow = 0
        /\ run.ggs_writes = 0

\* get_google_services has returned a valid credential that has a refresh token
C10_Witness ==
    /\ run.validAtLoad
    /\ pc = "fetch_events"
    /\ creds.rt
    /\ Valid(creds)

\* a step of /auth in which the authorization server exchanged the code for a
\* credential (flow.fetch_token returned)
CodeExchanged == (AuthCallback \/ AuthPost) /\ nextTok' = nextTok + 1
\* a step of /auth with a code in which flow.fetch_token raised
CallbackExchangeFailed == AuthCallback /\ nextTok' = nextTok
PostExchangeFailed ==
    AuthPost /\ nextTok' = nextTok /\ auth_error' # "Authorization code is required"

\* C11 as stated: a /auth request whose code exchange succeeds leaves both
\* token files holding the new credential and the session without auth_url
\* and auth_flow (or, when it could not be stored, leaves neither file
\* holding it and reports the failure); a /auth request whose code exchange fails
\* leaves both files as they were and reports "Authentication failed", in
\* the session on the callback path and on the page on the form path.
C11_HandshakePersists ==
    [][ /\ CodeExchanged =>
              \/ /\ tokenJson' = Cred(nextTok, tokenJson'.rt)
                 /\ tokenPickle' = tokenJson'
                 /\ session'.auth_url = ""
                 /\ session'.auth_flow = ""
              \/ /\ tokenJson'.st # "ok" \/ tokenJson'.tok # nextTok
                 /\ tokenPickle'.st # "ok" \/ tokenPickle'.tok # nextTok
                 /\ \/ auth_error' = "Authentication failed: error"
                    \/ session'.messages =
                          << [type |-> "error",
                              text |-> <<"Authentication failed: ", "error">>] >>
        /\ CallbackExchangeFailed =>
              /\ UNCHANGED <<tokenJson, tokenPickle>>
              /\ session'.messages =
                    << [type |-> "error",
                        text |-> <<"Authentication failed: ", "error">>] >>
        /\ PostExchangeFailed =>
              /\ UNCHANGED <<tokenJson, tokenPickle>>
              /\ auth_error' = "Authentication failed: error"
      ]_vars

\* C12: in one run the events list call, the tasks list call, the model
\* call, the refresh and the calendar-service acquisition are each made at
\* most once, no generated event is submitted twice, and a failed fetch or
\* generation is followed by nothing but the end of the run.
C12_SingleAttempt ==
    /\ run.list_events <= 1
    /\ run.list_tasks <= 1
    /\ run.model <= 1
    /\ run.refresh <= 1
    /\ run.calendar_service <= 1
    /\ \A i, j \in 1..Len(run.inserts) :
          run.inserts[i] = run.inserts[j] => i = j
    /\ (run.failed \cap {"fetch_events", "fetch_tasks", "generate_events"} # {})
          => pc \in {"finish", "Done"}

\* the model call failed and the run has ended after that single call
C12_Witness ==
    /\ pc = "Done"
    /\ "generate_events" \in run.failed
    /\ run.model = 1
    /\ run.list_events = 1
    /\ run.list_tasks = 1

\* the generated event submitted by the i-th insert request of this run
Submitted(i) == session.generated_events[run.inserts[i]]
\* dateutil.parser.parse raises on the start or on the end of ev
ParseFails(ev) ==
    \/ parse_isoformat(ev.start_datetime) = None
    \/ parse_isoformat(ev.end_datetime) = None
\* s with its first occurrence of old replaced by new
ReplaceFirst(s, old, new) ==
    [i \in 1..Len(s) |->
        IF s[i] = old /\ (\A j \in 1..(i - 1) : s[j] # old) THEN new ELSE s[i]]

\* C14 as stated: for an event whose start or end cannot be parsed, the
\* dateTime values sent are the given strings with only their first space
\* replaced by 'T' (then completed with the zone of lines 397-400).
C14_FallbackFirstSpace ==
    \A i \in 1..Len(run.bodies) :
        LET ev == Submitted(i) IN
        ParseFails(ev) =>
            /\ run.bodies[i].start.dateTime =
                  with_zone(ReplaceFirst(ev.start_datetime, " ", "T"))
            /\ run.bodies[i].end.dateTime =
                  with_zone(ReplaceFirst(ev.end_datetime, " ", "T"))

\* s ends with the UTC marker; s ends with a UTC offset (+hh:mm or -hh:mm)
Digits == {"0", "1", "2", "3", "4", "5", "6", "7", "8", "9"}
EndsWithZ(s) == Len(s) > 0 /\ s[Len(s)] = "Z"
HasOffset(s) ==
    /\ Len(s) >= 6
    /\ s[Len(s) - 5] \in {"+", "-"}
    /\ s[Len(s) - 4] \in Digits
    /\ s[Len(s) - 3] \in Digits
    /\ s[Len(s) - 2] = ":"
    /\ s[Len(s) - 1] \in Digits
    /\ s[Len(s)] \in Digits
\* the value the claim says is sent for the normalized string s
ZoneForced(s) == IF EndsWithZ(s) \/ HasOffset(s) THEN s ELSE Append(s, "Z")

\* C15 as stated: each dateTime sent is the normalized string (parsed or
\* fallback), with 'Z' appended exactly when it has neither the UTC marker
\* nor a UTC offset; so each dateTime sent ends with 'Z' or with an offset.
C15_ZoneAppended ==
    \A i \in 1..Len(run.bodies) :
        LET iso == iso_strings(Submitted(i))
            sent == run.bodies[i]
        IN /\ sent.start.dateTime = ZoneForced(iso.start)
           /\ sent.end.dateTime = ZoneForced(iso.end)
           /\ EndsWithZ(sent.start.dateTime) \/ HasOffset(sent.start.dateTime)
           /\ EndsWithZ(sent.end.dateTime) \/ HasOffset(sent.end.dateTime)

\* C16: every event the loop has passed was submitted to the provider, in
\* order, also when its start or end cannot be parsed; the request of such an
\* event carries the fallback strings (for "tomorrow at 9":
\* "tomorrowTatT9Z"); when the loop is over every event has been submitted.
C16_MalformedForwarded ==
    /\ pc = "create" => run.inserts = Indexes(idx - 1)
    /\ pc \in {"finish", "Done"} =>
          run.inserts = Indexes(Len(session.generated_events))
    /\ Len(run.bodies) = Len(run.inserts)
    /\ \A i \in 1..Len(run.bodies) :
          LET ev == Submitted(i) IN
          /\ ParseFails(ev) =>
                /\ run.bodies[i].start.dateTime =
                      with_zone(Replace(ev.start_datetime, " ", "T"))
                /\ run.bodies[i].end.dateTime =
                      with_zone(Replace(ev.end_datetime, " ", "T"))
          /\ ev.start_datetime = TomorrowAt9 =>
                run.bodies[i].start.dateTime =
                    <<"t", "o", "m", "o", "r", "r", "o", "w",
                      "T", "a", "t", "T", "9", "Z">>

\* a batch of two whose first event has an unparseable start: the provider
\* rejected the first request and accepted the second
C16_Witness ==
    /\ pc = "Done"
    /\ Len(session.generated_events) = 2
    /\ session.generated_events[1].start_datetime = TomorrowAt9
    /\ run.inserts = <<1, 2>>
    /\ run.insertFailed = {1}
    /\ Len(session.created_events) = 1

\* C17: every accepted insert adds one event to the provider's calendar,
\* whatever the calendar already holds.
C17_EveryInsertAdds ==
    [][ Len(created_events') = Len(created_events) + 1 =>
            LET t == created_events'[Len(created_events')].summary
            IN calendar' = [calendar EXCEPT ![t] = calendar[t] + 1]
      ]_vars

\* two runs generated the same first event and both inserts were accepted
C17_Witness ==
    /\ pc = "Done"
    /\ runs = 2
    /\ calendar[Title(1)] = 2
    /\ Len(session.created_events) >= 1

\* what C18 says of the three text fields and of summary, start and end
TextFieldsMapped(ev, body) ==
    /\ {"summary", "start", "end"} \subseteq DOMAIN body
    /\ body.summary = ev.summary
    /\ "color_id" \notin DOMAIN body
    /\ \A f \in {"description", "location", "color_id"} :
          LET k == IF f = "color_id" THEN "colorId" ELSE f
          IN /\ k \in DOMAIN body <=> (ev[f] # <<>> /\ ev[f][1] # "")
             /\ k \in DOMAIN body => body[k] = ev[f][1]
AddressRecords(body, list) ==
    body.attendees = [j \in 1..Len(list) |-> [email |-> list[j]]]

\* C18 as stated: attendees is in the body if and only if the event has an
\* attendees list.
C18_OptionalFields ==
    \A i \in 1..Len(run.bodies) :
        LET ev == Submitted(i)
            body == run.bodies[i]
        IN /\ TextFieldsMapped(ev, body)
           /\ "attendees" \in DOMAIN body <=> ev.attendees # <<>>
           /\ "attendees" \in DOMAIN body =>
                 AddressRecords(body, ev.attendees[1])

\* C18 amended: attendees is in the body if and only if the event has a
\* non-empty attendees list.
C18_OptionalFieldsNonEmpty ==
    \A i \in 1..Len(run.bodies) :
        LET ev == Submitted(i)
            body == run.bodies[i]
        IN /\ TextFieldsMapped(ev, body)
           /\ "attendees" \in DOMAIN body <=>
                 (ev.attendees # <<>> /\ ev.attendees[1] # <<>>)
           /\ "attendees" \in DOMAIN body =>
                 AddressRecords(body, ev.attendees[1])

\* a request was sent for an event with a description, an empty location, a
\* colour and two attendees
C18_Witness ==
    /\ Len(run.bodies) = 1
    /\ Submitted(1).location = <<"">>
    /\ DOMAIN run.bodies[1] =
          {"summary", "start", "end", "description", "colorId", "attendees"}
    /\ Len(run.bodies[1].attendees) = 2

\* C13: the prompt written for the events E, the tasks T and the text S is
\* what build_full_prompt returns each time it is called on them, and is: the
\* events header, one line per event of E in order (summary or '(no title)',
\* start and end), an empty line, the tasks header, one line per task of T in
\* order (title or '(no title)', its due date or 'none', and ', subtask of
\* <parent>' exactly when the task has a parent), an empty line, and S.
C13_PromptLayout ==
    (pc = "generate_events" /\ "save_prompt" \notin run.failed) =>
        LET E == session.events
            T == session.tasks
            S == session.custom_prompt
            out == promptFile
            n == Len(E)
            m == Len(T)
        IN /\ out = build_full_prompt(E, T, S)
           /\ Len(out) = n + m + 5
           /\ out[1] = <<"Today's calendar events:">>
           /\ \A i \in 1..n :
                 LET line == out[1 + i] IN
                 /\ Len(line) = 6
                 /\ line[1] = "- " /\ line[3] = " from " /\ line[5] = " to "
                 /\ line[2] = IF "summary" \in DOMAIN E[i]
                              THEN E[i].summary ELSE "(no title)"
                 /\ line[4] = IF "dateTime" \in DOMAIN E[i].start
                              THEN E[i].start.dateTime ELSE E[i].start.date
                 /\ line[6] = IF "dateTime" \in DOMAIN E[i].end
                              THEN E[i].end.dateTime ELSE E[i].end.date
           /\ out[n + 2] = <<>>
           /\ out[n + 3] = <<"Today's tasks with deadlines and parents:">>
           /\ \A j \in 1..m :
                 LET line == out[n + 3 + j] IN
                 /\ line[1] = "- " /\ line[3] = ", due "
                 /\ line[2] = IF "title" \in DOMAIN T[j]
                              THEN T[j].title ELSE "(no title)"
                 /\ line[4] = IF "due" \in DOMAIN T[j] THEN T[j].due ELSE "none"
                 /\ IF "parent" \in DOMAIN T[j]
                    THEN /\ Len(line) = 6
                         /\ line[5] = ", subtask of "
                         /\ line[6] = T[j].parent
                    ELSE Len(line) = 4
           /\ out[n + m + 4] = <<>>
           /\ out[n + m + 5] = <<S>>

\* the prompt was written for two different events, a task with a parent and
\* no due date, then a task with a due date and no parent
C13_Witness ==
    /\ pc = "generate_events"
    /\ Len(session.events) = 2
    /\ session.events[1] # session.events[2]
    /\ Len(session.tasks) = 2
    /\ DOMAIN session.tasks[1] = {"title", "parent"}
    /\ DOMAIN session.tasks[2] = {"title", "due"}
    /\ session.custom_prompt # ""
    /\ Len(promptFile) = 9

\* C19: once generate_events has raised in a run, the run asks for no
\* calendar service and issues no insert; the events and tasks in the session
\* are those fetched in this run, prompt.txt holds the prompt built from them,
\* and the messages are the fetch success followed by the generation error.
C19_GenerationFailureKeepsFetch ==
    ("generate_events" \in run.failed) =>
        /\ pc \in {"finish", "Done"}
        /\ run.calendar_service = 0
        /\ run.inserts = <<>>
        /\ run.bodies = <<>>
        /\ {"events", "tasks", "step_fetch"} \subseteq run.wrote
        /\ session.step_fetch
        /\ promptFile = build_full_prompt(session.events, session.tasks,
                                          session.custom_prompt)
        /\ messages =
              << [type |-> "success",
                  text |-> <<"Fetched ", ToString(Len(session.events)),
                             " events and ", ToString(Len(session.tasks)),
                             " tasks">>],
                 [type |-> "error",
                  text |-> <<"Error generating events: ", "GenerationError">>] >>
        /\ pc = "Done" => session.messages = messages

\* a second run fetched one event and no task, then its generation failed
C19_Witness ==
    /\ pc = "Done"
    /\ runs = 2
    /\ "generate_events" \in run.failed
    /\ Len(session.events) = MaxFetched
    /\ Len(session.tasks) = 0
    /\ Len(session.messages) = 2

\* thread t read from token.json an expired credential with a refresh token
ReadExpired(t) ==
    /\ threads[t].pc # "ggs_load"
    /\ threads[t].loaded.st = "ok"
    /\ threads[t].loaded.rt
    /\ threads[t].loaded.tok \notin live

\* C20: no lock guards the credential files: a thread about to read
\* token.json can do so wherever the other thread is between its own read and
\* its writes; every thread that read an expired credential with a refresh
\* token goes on to refresh it, also when the other thread has read the same
\* credential; and two refreshes yield two different credentials.
C20_NoMutualExclusion ==
    /\ \A t \in Threads : threads[t].pc = "ggs_load" => ENABLED ThreadLoad(t)
    /\ \A t \in Threads :
          ReadExpired(t) =>
              threads[t].pc \in {"ggs_refresh", "ggs_write_json",
                                 "ggs_write_pickle", "ggs_build", "returned",
                                 "raised"}
    /\ \A t, u \in Threads :
          (t # u /\ threads[t].refreshed /\ threads[u].refreshed) =>
              threads[t].creds # threads[u].creds

\* both threads read the same expired credential, both refreshed it and both
\* returned; token.json holds the credential of one refresh and token.pickle
\* the credential of the other
C20_Witness ==
    /\ \A t \in Threads : ReadExpired(t) /\ threads[t].pc = "returned"
    /\ threads[1].loaded = threads[2].loaded
    /\ threads[1].refreshed /\ threads[2].refreshed
    /\ tokenJson.st = "ok"
    /\ tokenPickle.st = "ok"
    /\ tokenJson # tokenPickle
    /\ \E t, u \in Threads :
          t # u /\ tokenJson = threads[t].creds /\ tokenPickle = threads[u].creds

\* C21: in every state of the session, during and after any sequence of
\* runs, step_create implies step_generate and step_generate implies
\* step_fetch.
C21_StepFlagsOrdered ==
    /\ session.step_create => session.step_generate
    /\ session.step_generate => session.step_fetch

\* a second run has ended on a failed fetch after a first run set the three
\* flags
C21_Witness ==
    /\ pc = "Done"
    /\ runs = 2
    /\ run.failed \cap {"fetch_events", "fetch_tasks"} # {}
    /\ session.step_fetch
    /\ session.step_generate
    /\ session.step_create

IsGenerationError(m) ==
    m.type = "error" /\ m.text[1] = "Error generating events: "

\* C22 as stated: a run records an 'Error generating events' message only
\* when its generation step failed (the model call, or the saving of its
\* result), and never once it has set step_generate.
C22_GenerationErrorMeansGenerationFailed ==
    (\E i \in 1..Len(messages) : IsGenerationError(messages[i])) =>
        /\ run.failed \cap {"generate_events", "save_events"} # {}
        /\ "step_generate" \notin run.wrote

\* C23 as stated: the timeZone of start and of end in the request is 'UTC'
\* when the event's timezone is None, and the event's timezone otherwise.
C23_TimeZoneDefaultsToUtc ==
    \A i \in 1..Len(run.bodies) :
        LET ev == Submitted(i)
            zone == IF ev.timezone = <<>> THEN <<"UTC">> ELSE ev.timezone
        IN /\ run.bodies[i].start.timeZone = zone
           /\ run.bodies[i].end.timeZone = zone

\* C24 as stated, for the runs in which the authorization request could be
\* built: a run has ended in AuthPending if and only if needs_auth was true
\* for the token.json it read.
C24_NeedsAuthAgreesWithRun ==
    (RunEnded /\ "ggs_flow" \notin run.failed) =>
        (run.needsAuthAtLoad <=> pc = "AuthPending")

====
